---- MODULE Spec2Model ----
(***************************************************************************)
(* Model of ecc_bitcoin_jacobi.js: the half extended gcd and the modular   *)
(* inverse of ECCbitcoin, the prime field operations, the Jacobian point   *)
(* doubling, addition and double-and-add multiplication of ECcurve, and    *)
(* the affine extraction of ECpoint.                                       *)
(*                                                                         *)
(* The 256-bit curve secp256k1 cannot be explored exhaustively, so the      *)
(* curve registry holds curves of the same shape over small primes.        *)
(* The arithmetic is the code's: products are not reduced where the code   *)
(* does not reduce them, .mod() truncates toward zero as bigInt does, and  *)
(* the sign fix-ups are modelled where the code has them.                  *)
(***************************************************************************)
EXTENDS Integers, Sequences, FiniteSets, TLC

(***************************************************************************)
(* Bounds of the model.                                                    *)
(***************************************************************************)
\* the caller hands modular_inverse and field_div integers in 0 .. MaxArg
MaxArg == 27
\* the caller hands modular_inverse moduli in 2 .. MaxMod
MaxMod == 13
\* the caller hands mul scalars in 0 .. 2 * n + MaxScalarSlack
MaxScalarSlack == 3

(***************************************************************************)
(* The big-integer capability (BigInteger.js), as the code uses it.        *)
(***************************************************************************)
\* bigInt.abs()
abs(v) == IF v < 0 THEN -v ELSE v

\* bigInt.mod(m), m > 0: the remainder takes the sign of the dividend
mod(v, m) == IF v >= 0 THEN v % m ELSE -((-v) % m)

\* the idiom  r = (...).mod(m); if(r.sign) r = r.add(m);
modfix(v, m) == IF mod(v, m) < 0 THEN mod(v, m) + m ELSE mod(v, m)

\* bigInt.modPow(e, m) for a non-negative base and exponent
RECURSIVE modPow(_, _, _)
modPow(base, e, m) ==
    IF e = 0 THEN 1 % m ELSE ((base % m) * modPow(base, e - 1, m)) % m

(***************************************************************************)
(* ECCbitcoin.half_extended_gcd and ECCbitcoin.modular_inverse             *)
(***************************************************************************)
\* the while loop of half_extended_gcd, on (lastrem, rem, x, lastx)
RECURSIVE gcd_loop(_, _, _, _)
gcd_loop(lastrem, rem, x, lastx) ==
    IF rem = 0
    THEN <<lastrem, lastx>>
    ELSE gcd_loop(rem, lastrem % rem, lastx - (lastrem \div rem) * x, x)

half_extended_gcd(aa, bb) == gcd_loop(abs(aa), abs(bb), 0, 1)

\* TRUE when modular_inverse prints "No inverse found"
inverse_logs(a, m) == half_extended_gcd(a, m)[1] # 1

\* faulty variant: the negative remainder is returned as it is
modular_inverse_nofix(a, m) == mod(half_extended_gcd(a, m)[2], m)

\* the value modular_inverse returns (it returns on every path)
modular_inverse(a, m) == modfix(half_extended_gcd(a, m)[2], m)

(***************************************************************************)
(* ECcurve: field operations                                               *)
(***************************************************************************)
field_mul(c, a, b) == mod(a * b, c.p)

field_div(c, num, den) ==
    field_mul(c, mod(num, c.p), modular_inverse(mod(den, c.p), c.p))

\* TRUE when the modular_inverse call inside field_div prints
field_div_logs(c, den) == inverse_logs(mod(den, c.p), c.p)

(***************************************************************************)
(* ECpoint                                                                 *)
(***************************************************************************)
ECpoint(x, y, z) == [x |-> x, y |-> y, z |-> z]

get_x(c, Q) == field_div(c, Q.x, modPow(Q.z, 2, c.p))

get_y(c, Q) == field_div(c, Q.y, modPow(Q.z, 3, c.p))

(***************************************************************************)
(* ECcurve: points                                                         *)
(***************************************************************************)
identity(c) == ECpoint(c.p, 0, 1)

touches(c, Q) ==
    LET x == get_x(c, Q)
        y == get_y(c, Q)
        y2 == mod(y * y, c.p)
        x3ab == mod(field_mul(c, mod(x * x, c.p) + c.a, x) + c.b, c.p)
    IN  y2 = x3ab

tangent(c, Q) == field_div(c, Q.x * Q.x * 3 + c.a, Q.y * 2)

\* faulty variant: the linear coefficient is not scaled by Z^4
double_unscaled(c, Q) ==
    IF Q.x = c.p
    THEN Q
    ELSE LET S == mod(Q.x * Q.y * Q.y * 4, c.p)
             M == Q.x * Q.x * 3 + c.a
             x == modfix(M * M - S * 2, c.p)
             Y2 == Q.y * Q.y
             y == modfix(M * (S - x) - Y2 * Y2 * 8, c.p)
             z == mod(Q.z * Q.y * 2, c.p)
         IN  ECpoint(x, y, z)

double(c, Q) ==
    IF Q.x = c.p
    THEN Q
    ELSE LET S == mod(Q.x * Q.y * Q.y * 4, c.p)
             Z2 == Q.z * Q.z
             Z4 == mod(Z2 * Z2, c.p)
             M == Q.x * Q.x * 3 + c.a * Z4
             x == modfix(M * M - S * 2, c.p)
             Y2 == Q.y * Q.y
             y == modfix(M * (S - x) - Y2 * Y2 * 8, c.p)
             z == mod(Q.z * Q.y * 2, c.p)
         IN  ECpoint(x, y, z)

\* add, the cross-multiplied coordinates xs1, xs2, ys1, ys2
cross(c, Q1, Q2) ==
    LET Q1z2 == Q1.z * Q1.z
        Q2z2 == Q2.z * Q2.z
    IN  [xs1 |-> mod(Q1.x * Q2z2, c.p),
         xs2 |-> mod(Q2.x * Q1z2, c.p),
         ys1 |-> mod(Q1.y * Q2z2 * Q2.z, c.p),
         ys2 |-> mod(Q2.y * Q1z2 * Q1.z, c.p)]

\* add, the ordinary case
add_ordinary(c, Q1, Q2) ==
    LET k == cross(c, Q1, Q2)
        xd == modfix(k.xs2 - k.xs1, c.p)
        yd == modfix(k.ys2 - k.ys1, c.p)
        xd2 == mod(xd * xd, c.p)
        xd3 == mod(xd2 * xd, c.p)
        x == modfix(yd * yd - xd3 - k.xs1 * xd2 * 2, c.p)
        y == modfix(yd * (k.xs1 * xd2 - x) - k.ys1 * xd3, c.p)
        z == mod(xd * Q1.z * Q2.z, c.p)
    IN  ECpoint(x, y, z)

\* faulty variant: the equality special cases are skipped
add_finite_unchecked(c, Q1, Q2) == add_ordinary(c, Q1, Q2)

\* faulty variant: the coordinates are compared as stored, not cross-multiplied
add_finite_raw(c, Q1, Q2) ==
    IF Q1.x = Q2.x
    THEN IF Q1.y = Q2.y THEN double(c, Q1) ELSE identity(c)
    ELSE add_ordinary(c, Q1, Q2)

\* add, once neither operand is the identity: the equality special cases,
\* then the ordinary case
add_finite(c, Q1, Q2) ==
    LET k == cross(c, Q1, Q2)
    IN  IF k.xs1 = k.xs2
        THEN IF k.ys1 = k.ys2 THEN double(c, Q1) ELSE identity(c)
        ELSE add_ordinary(c, Q1, Q2)

\* faulty variant: the identity special cases return the wrong operand
add_swapped(c, Q1, Q2) ==
    IF Q1.x = c.p THEN Q1
    ELSE IF Q2.x = c.p THEN Q2
    ELSE add_finite(c, Q1, Q2)

add(c, Q1, Q2) ==
    IF Q1.x = c.p THEN Q2
    ELSE IF Q2.x = c.p THEN Q1
    ELSE add_finite(c, Q1, Q2)

(***************************************************************************)
(* ECcurve.mul: the binary multiply loop.  A loop state is the locals      *)
(* R, Q, m, with counters of the iterations and of the calls it has made.  *)
(***************************************************************************)
mul_init(c, Q, i) ==
    [R |-> identity(c), Q |-> Q, m |-> i, iters |-> 0, adds |-> 0, dbls |-> 0]

\* faulty variant: Q is never doubled
mul_body_nodouble(c, s) ==
    LET bit == (s.m % 2 = 1)
        m1 == s.m \div 2
    IN  [R |-> IF bit THEN add(c, s.R, s.Q) ELSE s.R,
         Q |-> s.Q,
         m |-> m1,
         iters |-> s.iters + 1,
         adds |-> s.adds + (IF bit THEN 1 ELSE 0),
         dbls |-> s.dbls]

\* faulty variant: Q is doubled after the last bit too
mul_body_overdouble(c, s) ==
    LET bit == (s.m % 2 = 1)
        m1 == s.m \div 2
    IN  [R |-> IF bit THEN add(c, s.R, s.Q) ELSE s.R,
         Q |-> double(c, s.Q),
         m |-> m1,
         iters |-> s.iters + 1,
         adds |-> s.adds + (IF bit THEN 1 ELSE 0),
         dbls |-> s.dbls + 1]

\* one pass through the body of the while loop (entered with m # 0)
mul_body(c, s) ==
    LET bit == (s.m % 2 = 1)
        m1 == s.m \div 2
    IN  [R |-> IF bit THEN add(c, s.R, s.Q) ELSE s.R,
         Q |-> IF m1 # 0 THEN double(c, s.Q) ELSE s.Q,
         m |-> m1,
         iters |-> s.iters + 1,
         adds |-> s.adds + (IF bit THEN 1 ELSE 0),
         dbls |-> s.dbls + (IF m1 # 0 THEN 1 ELSE 0)]

RECURSIVE mul_loop(_, _)
mul_loop(c, s) == IF s.m = 0 THEN s ELSE mul_loop(c, mul_body(c, s))

mul(c, Q, i) == mul_loop(c, mul_init(c, Q, i)).R

(***************************************************************************)
(* The curve registry.  secp256k1 is y^2 = x^3 + 7 (a = 0, b = 7) over a   *)
(* 256-bit prime, with a group of prime order n and a generator G given    *)
(* with Z = 1.  The registry keeps that shape over small primes:           *)
(*   koblitz13  the same equation, a = 0, b = 7, over p = 13; its group    *)
(*              has prime order 7;                                         *)
(*   linear11   a = 1, b = 6 over p = 7, prime order 11: a curve with a    *)
(*              linear part, which exercises the a * Z^4 term of double.   *)
(* On both, as on secp256k1, the group order is odd and no point has       *)
(* y = 0.  ECcurve itself takes any p, a, b, G, n, so a third curve stands *)
(* for the curves a caller can build that secp256k1 is not like:           *)
(*   even10     a = 1, b = 4 over p = 7; its group has order 10 and holds  *)
(*              the point (2, 0); G generates the subgroup of order 5.     *)
(***************************************************************************)
koblitz13 == [p |-> 13, a |-> 0, b |-> 7, G |-> ECpoint(7, 5, 1), n |-> 7]

linear11 == [p |-> 7, a |-> 1, b |-> 6, G |-> ECpoint(1, 1, 1), n |-> 11]

even10 == [p |-> 7, a |-> 1, b |-> 4, G |-> ECpoint(4, 3, 1), n |-> 5]

RefCurves == {koblitz13, linear11}

AnyCurves == RefCurves \cup {even10}

(***************************************************************************)
(* The points a caller can hold: the identity, every Jacobian triple with  *)
(* Z # 0 that touches the curve, and the mirror image (x, p - y, 1) of     *)
(* each affine point as a caller computes it.                              *)
(***************************************************************************)
Jacobians(c) ==
    {Q \in [x : 0 .. c.p - 1, y : 0 .. c.p - 1, z : 1 .. c.p - 1] : touches(c, Q)}

Mirror(c, Q) == ECpoint(Q.x, c.p - Q.y, 1)

FiniteTable == [c \in AnyCurves |-> Jacobians(c)]

PointTable ==
    [c \in AnyCurves |->
        {identity(c)} \cup FiniteTable[c]
            \cup {Mirror(c, Q) : Q \in {J \in FiniteTable[c] : J.z = 1}}]

Points(c) == PointTable[c]

(***************************************************************************)
(* The state: one call of the library by a caller.  op names the function  *)
(* called, argA/argB its integer arguments, Q1/Q2 its point arguments,     *)
(* ret/res the integer or point it returns, outcome how the call ended,    *)
(* logged whether it printed "No inverse found", and loop the locals of    *)
(* the multiply loop.  pc is "call" before the call, "mul" inside the      *)
(* multiply loop and "done" after the return.                              *)
(***************************************************************************)
VARIABLES curve, pc, op, argA, argB, Q1, Q2, ret, res, outcome, logged, loop

vars == <<curve, pc, op, argA, argB, Q1, Q2, ret, res, outcome, logged, loop>>

NoLoop(c) == mul_init(c, identity(c), 0)

\* the arguments the caller may pass to each function
ArgsOK(c) ==
    \/ /\ op = "modular_inverse"
       /\ argA \in 0 .. MaxArg
       /\ argB \in 2 .. MaxMod
       /\ Q1 = identity(c)
       /\ Q2 = identity(c)
    \/ /\ op = "field_div"
       /\ argA \in 0 .. MaxArg
       /\ argB \in 0 .. MaxArg
       /\ Q1 = identity(c)
       /\ Q2 = identity(c)
    \/ /\ op = "double"
       /\ argA = 0
       /\ argB = 0
       /\ Q1 \in Points(c)
       /\ Q2 = identity(c)
    \/ /\ op = "add"
       /\ argA = 0
       /\ argB = 0
       /\ Q1 \in Points(c)
       /\ Q2 \in Points(c)
    \/ /\ op = "mul"
       /\ argA \in 0 .. 2 * c.n + MaxScalarSlack
       /\ argB = 0
       /\ Q1 \in Points(c)
       /\ Q2 = identity(c)

InitWith(curves) ==
    /\ curve \in curves
    /\ pc = "call"
    /\ op \in {"modular_inverse", "field_div", "double", "add", "mul"}
    /\ ArgsOK(curve)
    /\ ret = 0
    /\ res = identity(curve)
    /\ outcome = "none"
    /\ logged = FALSE
    /\ loop = NoLoop(curve)

Init == InitWith(RefCurves)

InitAny == InitWith(AnyCurves)

\* ECCbitcoin.modular_inverse(a, m)
CallModularInverse ==
    /\ pc = "call"
    /\ op = "modular_inverse"
    /\ ret' = modular_inverse(argA, argB)
    /\ logged' = inverse_logs(argA, argB)
    /\ outcome' = "returned"
    /\ pc' = "done"
    /\ UNCHANGED <<curve, op, argA, argB, Q1, Q2, res, loop>>

\* curve.field_div(num, den)
CallFieldDiv ==
    /\ pc = "call"
    /\ op = "field_div"
    /\ ret' = field_div(curve, argA, argB)
    /\ logged' = field_div_logs(curve, argB)
    /\ outcome' = "returned"
    /\ pc' = "done"
    /\ UNCHANGED <<curve, op, argA, argB, Q1, Q2, res, loop>>

\* curve.double(Q)
CallDouble ==
    /\ pc = "call"
    /\ op = "double"
    /\ res' = double(curve, Q1)
    /\ outcome' = "returned"
    /\ pc' = "done"
    /\ UNCHANGED <<curve, op, argA, argB, Q1, Q2, ret, logged, loop>>

\* curve.add(Q1, Q2)
CallAdd ==
    /\ pc = "call"
    /\ op = "add"
    /\ res' = add(curve, Q1, Q2)
    /\ outcome' = "returned"
    /\ pc' = "done"
    /\ UNCHANGED <<curve, op, argA, argB, Q1, Q2, ret, logged, loop>>

\* curve.mul(Q, i): entry, R = identity, m = i
MulEnter ==
    /\ pc = "call"
    /\ op = "mul"
    /\ loop' = mul_init(curve, Q1, argA)
    /\ pc' = "mul"
    /\ UNCHANGED <<curve, op, argA, argB, Q1, Q2, ret, res, outcome, logged>>

\* curve.mul: one iteration of the binary multiply loop
MulIterate ==
    /\ pc = "mul"
    /\ loop.m # 0
    /\ loop' = mul_body(curve, loop)
    /\ UNCHANGED <<curve, pc, op, argA, argB, Q1, Q2, ret, res, outcome, logged>>

\* curve.mul: the loop condition fails, return R
MulReturn ==
    /\ pc = "mul"
    /\ loop.m = 0
    /\ res' = loop.R
    /\ outcome' = "returned"
    /\ pc' = "done"
    /\ UNCHANGED <<curve, op, argA, argB, Q1, Q2, ret, logged, loop>>

Next ==
    \/ CallModularInverse
    \/ CallFieldDiv
    \/ CallDouble
    \/ CallAdd
    \/ MulEnter
    \/ MulIterate
    \/ MulReturn

Spec == Init /\ [][Next]_vars

SpecAny == InitAny /\ [][Next]_vars

(***************************************************************************)
(* Vocabulary of the properties                                            *)
(***************************************************************************)
IsPrime(m) == m > 1 /\ \A d \in 2 .. m - 1 : m % d # 0

RECURSIVE Gcd(_, _)
Gcd(a, b) == IF b = 0 THEN a ELSE Gcd(b, a % b)

RECURSIVE BitLength(_)
BitLength(m) == IF m = 0 THEN 0 ELSE 1 + BitLength(m \div 2)

RECURSIVE PopCount(_)
PopCount(m) == IF m = 0 THEN 0 ELSE (m % 2) + PopCount(m \div 2)

IsIdentity(c, Q) == Q.x = c.p

\* a finite point: canonical X, Y, Z # 0, on the curve
Finite(c, Q) == Q \in FiniteTable[c]

Affine(c, Q) == <<get_x(c, Q), get_y(c, Q)>>

\* the same point: both the identity, or both finite with equal affine coordinates
SamePoint(c, A, B) ==
    \/ IsIdentity(c, A) /\ IsIdentity(c, B)
    \/ ~IsIdentity(c, A) /\ ~IsIdentity(c, B) /\ Affine(c, A) = Affine(c, B)

\* another Jacobian representation of the affine point of Q
Rescale(c, Q, k) ==
    ECpoint((k * k * Q.x) % c.p, (k * k * k * Q.y) % c.p, (k * Q.z) % c.p)

\* tangent-line doubling of the affine point (x, y) of Q
Textbook(c, Q) ==
    LET x == get_x(c, Q)
        y == get_y(c, Q)
        s == tangent(c, ECpoint(x, y, 1))
        x2 == (s * s + 2 * (c.p - x)) % c.p
        y2 == (s * (x + c.p - x2) + (c.p - y)) % c.p
    IN  <<x2, y2>>

\* k * G for 0 <= k <= 2 * n, by mul
MulG == [c \in AnyCurves |-> [k \in 0 .. 2 * c.n |-> mul(c, c.G, k)]]

Returned(f) == pc = "done" /\ op = f

(***************************************************************************)
(* C1: for a prime modulus p and 1 <= a <= p - 1, modular_inverse(a, p)    *)
(* returns x with 0 <= x <= p - 1 and (a * x) mod p = 1.                   *)
(***************************************************************************)
C1_InverseCorrect ==
    (Returned("modular_inverse") /\ IsPrime(argB) /\ argA \in 1 .. argB - 1)
        => /\ ret \in 0 .. argB - 1
           /\ (argA * ret) % argB = 1

\* the case where the tracked coefficient ends negative and is shifted by m
C1_Witness ==
    /\ Returned("modular_inverse")
    /\ IsPrime(argB)
    /\ argA \in 2 .. argB - 1
    /\ half_extended_gcd(argA, argB)[2] < 0

(***************************************************************************)
(* C2: for every finite point P, add(Identity, P) and add(P, Identity)     *)
(* return a point with the affine coordinates of P.                        *)
(***************************************************************************)
C2_AddIdentity ==
    Returned("add") =>
        /\ (Q1 = identity(curve) /\ Finite(curve, Q2))
              => Affine(curve, res) = Affine(curve, Q2)
        /\ (Q2 = identity(curve) /\ Finite(curve, Q1))
              => Affine(curve, res) = Affine(curve, Q1)

C2_Witness ==
    /\ Returned("add")
    /\ Q1 = identity(curve)
    /\ Finite(curve, Q2)
    /\ Q2.z # 1

(***************************************************************************)
(* C3: for every finite point P = (x, y) with Z = 1, points with y = 0     *)
(* included, add(P, (x, p - y)) returns the identity (X = p).              *)
(***************************************************************************)
C3_AddMirrorIsIdentity ==
    (Returned("add") /\ Finite(curve, Q1) /\ Q1.z = 1 /\ Q2 = Mirror(curve, Q1))
        => res.x = curve.p

(***************************************************************************)
(* C4: for the generator G of order n and 0 <= k1, k2 < n, mul(G, k1 + k2) *)
(* and add(mul(G, k1), mul(G, k2)) are the same point.  Stated on the add  *)
(* of two multiples of G, and on the mul of G by k = k1 + k2.              *)
(***************************************************************************)
C4_MulIsAdditive ==
    /\ Returned("add") =>
          \A k1, k2 \in 0 .. curve.n - 1 :
              (Q1 = MulG[curve][k1] /\ Q2 = MulG[curve][k2])
                  => SamePoint(curve, MulG[curve][k1 + k2], res)
    /\ (Returned("mul") /\ Q1 = curve.G) =>
          \A k1, k2 \in 0 .. curve.n - 1 :
              (k1 + k2 = argA)
                  => SamePoint(curve, res,
                               add(curve, MulG[curve][k1], MulG[curve][k2]))

\* two equal multiples whose sum wraps around n
C4_Witness ==
    /\ Returned("add")
    /\ \E k \in 1 .. curve.n - 1 :
          /\ 2 * k > curve.n
          /\ Q1 = MulG[curve][k]
          /\ Q2 = MulG[curve][k]
    /\ ~IsIdentity(curve, res)

(***************************************************************************)
(* C5: for every finite point P, the affine coordinates of double(P) are   *)
(* the tangent-line doubling of the affine coordinates (x, y) of P, with   *)
(* the slope s = (3x^2 + a) / (2y) computed by tangent.                    *)
(***************************************************************************)
C5_DoubleIsTextbook ==
    (Returned("double") /\ Finite(curve, Q1))
        => Affine(curve, res) = Textbook(curve, Q1)

C5_Witness ==
    /\ Returned("double")
    /\ Finite(curve, Q1)
    /\ Q1.z # 1
    /\ curve.a # 0

(***************************************************************************)
(* C6: for a curve whose generator G has order n, mul(G, n) returns the    *)
(* identity (X = p).                                                       *)
(***************************************************************************)
C6_MulByOrder ==
    (Returned("mul") /\ Q1 = curve.G /\ argA = curve.n) => res.x = curve.p

C6_Witness ==
    /\ Returned("mul")
    /\ Q1 = curve.G
    /\ argA = curve.n
    /\ loop.adds > 1
    /\ loop.dbls > 1

(***************************************************************************)
(* C7: when gcd(a, m) # 1, modular_inverse(a, m), and so field_div(num,    *)
(* den), ends in an explicit failure, not in an ordinary integer result.   *)
(***************************************************************************)
C7_NoInverseFails ==
    /\ (Returned("modular_inverse") /\ Gcd(argA, argB) # 1)
          => outcome = "failed"
    /\ (Returned("field_div") /\ Gcd(argB % curve.p, curve.p) # 1)
          => outcome = "failed"

(***************************************************************************)
(* C8: every point returned by double, add or mul on operands that are the *)
(* identity or finite points is the identity (p, 0, 1) or has Z # 0 mod p. *)
(***************************************************************************)
Operand(c, Q) == Q = identity(c) \/ Finite(c, Q)

C8_ResultZNonZero ==
    (/\ pc = "done"
     /\ op \in {"double", "add", "mul"}
     /\ Operand(curve, Q1)
     /\ Operand(curve, Q2))
        => \/ res = identity(curve)
           \/ res.z % curve.p # 0

(***************************************************************************)
(* C9: the loop of mul(Q, m) ends after exactly bitlength(m) iterations,   *)
(* with popcount(m) calls of add and max(bitlength(m) - 1, 0) calls of     *)
(* double; for m = 0 it returns the identity with no add and no double.    *)
(***************************************************************************)
C9_MulLoopCost ==
    /\ (pc = "mul") => loop.iters + BitLength(loop.m) = BitLength(argA)
    /\ Returned("mul") =>
          /\ loop.iters = BitLength(argA)
          /\ loop.adds = PopCount(argA)
          /\ loop.dbls = (IF argA = 0 THEN 0 ELSE BitLength(argA) - 1)
          /\ (argA = 0) => res = identity(curve)

C9_Witness ==
    /\ Returned("mul")
    /\ loop.iters >= 4
    /\ loop.adds < loop.iters
    /\ loop.adds >= 2

(***************************************************************************)
(* C10: for finite points Q1, Q2 and 1 <= k <= p - 1, add(Q1, Q2) and      *)
(* add((k^2 X, k^3 Y, k Z), Q2) are the same point.                        *)
(***************************************************************************)
C10_AddRepresentationFree ==
    (Returned("add") /\ Finite(curve, Q1) /\ Finite(curve, Q2))
        => \A k \in 1 .. curve.p - 1 :
              SamePoint(curve, res, add(curve, Rescale(curve, Q1, k), Q2))

\* the doubling branch reached by two representations of one affine point
C10_Witness ==
    /\ Returned("add")
    /\ Finite(curve, Q1)
    /\ Finite(curve, Q2)
    /\ Q1.z # Q2.z
    /\ Affine(curve, Q1) = Affine(curve, Q2)
    /\ ~IsIdentity(curve, res)

====
